---- MODULE Spec2Model ----
(***************************************************************************)
(* The subprocess RPC client of the RAMA backend (Backend/app/mcp_client.py)*)
(* as a state machine: one shared MCPClient object (process, initialized), *)
(* the child processes it spawns, and caller tasks that run the client's   *)
(* coroutines on one event loop.  A task gives up the loop only at the     *)
(* awaits that really suspend: create_subprocess_exec, stdin.drain(),      *)
(* stdout.readline() and process.wait(); everything between two of them is *)
(* one atomic step.                                                        *)
(***************************************************************************)
EXTENDS Integers, Sequences, FiniteSets, TLC

VARIABLES
    process,      \* MCPClient.process: a child id, or None
    initialized,  \* MCPClient.initialized
    nspawned,     \* children 1..nspawned have been spawned
    alive,        \* alive[ch]: child ch is running
    inbox,        \* inbox[ch]: request lines written to ch's stdin, unanswered
    outbox,       \* outbox[ch]: lines ch has written to stdout, unread
    waiter,       \* waiter[ch]: the task suspended in readline() on ch's stdout
    task,         \* task[t]: where caller task t stands in its coroutine
    returned,     \* what the call that returned in the last step handed back
    nops,         \* operations invoked so far
    shaken,       \* children from which a start() accepted the handshake
                  \* response (not in the program)
    maxid         \* maxid[ch]: largest id of the requests written to ch so
                  \* far (not in the program)

vars == <<process, initialized, nspawned, alive, inbox, outbox, waiter,
          task, returned, nops, shaken, maxid>>

----------------------------------------------------------------------------
(* Bounds of the model *)

MaxSpawns == 2
MaxOps == 4
MaxConcOps == 3
MaxQueryLen == 4
MaxWords == 3

(* Two caller tasks share the client; Caller is the one that runs alone
   when the operations are issued one after another *)
Tasks == {"t1", "t2"}
Caller == "t1"
NoTask == "-"
Children == 1..MaxSpawns
None == 0

(* Arguments of a call (query/topic string, paper list) taken as one token *)
Args == {"q1", "q2"}

(* A field of a paper dict as a fallback meets it: a list of strings, a key
   that is absent, or a key whose value is None *)
FieldKinds == {"strs", "missing", "null"}

Paper(au, kw) == [authors |-> au, keywords |-> kw]

(* The paper list an argument carries (the operations that take no papers
   ignore it): a complete paper and one without fields, or a paper whose
   authors are None *)
Papers(a) ==
    IF a = "q1" THEN <<Paper("strs", "strs"), Paper("missing", "missing")>>
    ELSE <<Paper("null", "strs")>>

(* content[0].text of a success envelope: a JSON document, or plain text *)
Texts == {"{\"k\": 1}", "{\"k\": 2}", "Error: boom"}

----------------------------------------------------------------------------
(* The facade's operations *)

StartingOps == {"search_papers", "generate_workspace", "create_mindmap"}

DirectOps == {"generate_comprehensive_summaries", "generate_ieee_citations",
              "generate_sample_paper", "create_interactive_mindmap"}

Capabilities == StartingOps \cup DirectOps

(* `if not self.initialized: await self.start()` opens these operations *)
CallsStart(o) == o \in StartingOps

(* The literal "id" each operation puts in its request *)
RequestId(o) ==
    CASE o = "initialize" -> 1
      [] o = "search_papers" -> 2
      [] o = "generate_workspace" -> 3
      [] o = "create_mindmap" -> 4
      [] o = "generate_comprehensive_summaries" -> 4
      [] o = "generate_ieee_citations" -> 5
      [] o = "generate_sample_paper" -> 6
      [] o = "create_interactive_mindmap" -> 7

(* The keys of "arguments" in the request each operation writes *)
ArgumentKeys(o) ==
    CASE o = "search_papers" -> {"query", "max_results", "sources"}
      [] o = "generate_workspace" -> {"topic", "include_tools", "include_files"}
      [] o = "create_mindmap" -> {"topic", "depth", "include_connections"}
      [] o = "generate_comprehensive_summaries" -> {"query", "papers"}
      [] o = "generate_ieee_citations" -> {"papers"}
      [] o = "generate_sample_paper" -> {"query", "papers"}
      [] o = "create_interactive_mindmap" -> {"query", "papers"}
      [] OTHER -> {"protocolVersion", "capabilities", "clientInfo"}

(* The tools the provider lists, and the properties of each tool's input
   schema *)
ToolNames ==
    {"search_papers", "generate_workspace", "create_mindmap",
     "create_interactive_mindmap", "generate_comprehensive_summaries",
     "generate_ieee_citations", "generate_sample_paper", "synthesize_audio"}

ToolSchemaKeys(name) ==
    CASE name = "search_papers" -> {"query", "max_results", "sources"}
      [] name = "generate_workspace" ->
             {"topic", "include_tools", "include_files"}
      [] name = "create_mindmap" -> {"topic", "depth", "include_connections"}
      [] name = "create_interactive_mindmap" ->
             {"topic", "depth", "include_connections", "include_authors"}
      [] name = "generate_comprehensive_summaries" -> {"topic", "papers"}
      [] name = "generate_ieee_citations" -> {"papers", "format"}
      [] name = "generate_sample_paper" -> {"topic", "papers"}
      [] name = "synthesize_audio" -> {"text", "voice"}
      [] OTHER -> {}

(* The request envelope; no is the number of the operation that wrote it
   (not on the wire) *)
Request(o, a, n) ==
    [id |-> RequestId(o),
     method |-> IF o = "initialize" THEN "initialize" ELSE "tools/call",
     name |-> o, keys |-> ArgumentKeys(o), arg |-> a, no |-> n]

----------------------------------------------------------------------------
(* Lines and values *)

(* ans, answers: the operation and method of the request a line answers
   (not on the wire) *)
Line(s, i, tx, rq) ==
    [shape |-> s, id |-> i, text |-> tx, ans |-> rq.no, answers |-> rq.method]

NoLine == [shape |-> "none", id |-> 0, text |-> "", ans |-> 0, answers |-> ""]

(* What a provider may write in answer to request rq: a success envelope
   {"id":..,"result":{"content":[{"type":"text","text":..}]}}, an error
   envelope, a line that is not JSON, JSON that is not an object, a success
   envelope whose result has no content, or a success envelope under
   another id than the request's. *)
Replies(rq) ==
    IF rq.method = "initialize"
    THEN {Line("ok", rq.id, "{\"k\": 1}", rq)}
         \cup {Line(s, rq.id, "", rq) : s \in {"error", "garbage", "nondict"}}
    ELSE {Line("ok", rq.id, tx, rq) : tx \in Texts}
         \cup {Line("ok", rq.id + 1, "{\"k\": 1}", rq)}
         \cup {Line(s, rq.id, "", rq) :
                 s \in {"error", "garbage", "nondict", "nocontent"}}

(* A provider that keeps to the protocol: a success envelope with a JSON
   text under the request's id, or an error envelope *)
WellFormedReplies(rq) ==
    {Line("ok", rq.id, "{\"k\": 1}", rq), Line("error", rq.id, "", rq)}

(* The lines of a provider that may write anything, or of a strict one *)
Answers(rq, strict) == IF strict THEN WellFormedReplies(rq) ELSE Replies(rq)

(* json.loads of a content text *)
JsonValid(tx) == tx \in {"{\"k\": 1}", "{\"k\": 2}"}

JsonLoads(tx) == [ty |-> "dict", k |-> IF tx = "{\"k\": 1}" THEN 1 ELSE 2]

PyStr(tx) == [ty |-> "str", s |-> tx]

NoVal == [ty |-> "none"]

Max(x, y) == IF x >= y THEN x ELSE y

(* paper.get(field, default)[:n]: a list is sliced, the default stands in
   for an absent key, None raises TypeError *)
SliceRaises(v) == v = "null"

(* _get_mock_citations: `paper.get("authors", [...])[:3]` for each paper *)
GetMockCitationsRaises(ps) ==
    \E i \in 1..Len(ps) : SliceRaises(ps[i].authors)

(* _get_mock_interactive_mindmap: `paper.get("authors", [])[:2]` and
   `paper.get("keywords", [])[:3]` for each paper *)
GetMockInteractiveMindmapRaises(ps) ==
    \E i \in 1..Len(ps) :
        SliceRaises(ps[i].authors) \/ SliceRaises(ps[i].keywords)

(* Whether the fallback of operation o raises on arguments a; the other
   fallbacks format the query and pass paper fields on with .get() *)
MockRaises(o, a) ==
    CASE o = "generate_ieee_citations" -> GetMockCitationsRaises(Papers(a))
      [] o = "create_interactive_mindmap" ->
             GetMockInteractiveMindmapRaises(Papers(a))
      [] OTHER -> FALSE

MockRaised == [ty |-> "raise", exc |-> "TypeError"]

(* A fallback that numbers its results *)
GetMockNumbered(o, a) ==
    IF MockRaises(o, a) THEN MockRaised
    ELSE [ty |-> "dict", mock |-> o, of |-> a, seq |-> nops]

(* _get_mock_*: the fallback result, a function of operation and arguments *)
GetMock(o, a) ==
    IF MockRaises(o, a) THEN MockRaised
    ELSE [ty |-> "dict", mock |-> o, of |-> a]

(* _read_response, from the line on: json.loads, None on any exception *)
ParseLine(ln) == IF ln.shape = "garbage" THEN NoLine ELSE ln

(* start(): `if response and response.get("result")` *)
StartAccepts(r) ==
    CASE r.shape = "none" -> "no"
      [] r.shape = "nondict" -> "raise"
      [] r.shape \in {"ok", "nocontent"} -> "yes"
      [] OTHER -> "no"

(* What the body of an operation's try block comes to: a return, the end
   of the block, or an exception *)
Live(v) == [out |-> "live", val |-> v, exc |-> ""]
Fall == [out |-> "fall", val |-> NoVal, exc |-> ""]
Raise(e) == [out |-> "raise", val |-> NoVal, exc |-> e]

(* search_papers, generate_workspace, create_mindmap: the body of the try
   after the read *)
DecodeParsed(r) ==
    CASE r.shape = "none" -> Fall
      [] r.shape = "nondict" -> Raise("AttributeError")
      [] r.shape = "error" -> Fall
      [] r.shape = "nocontent" -> Fall
      [] r.shape = "ok" -> IF JsonValid(r.text) THEN Live(JsonLoads(r.text))
                           ELSE Raise("JSONDecodeError")

(* the four other operations: return response["result"]["content"][0]["text"] *)
DecodeRaw(r) ==
    CASE r.shape = "none" -> Fall
      [] r.shape = "nondict" -> Raise("AttributeError")
      [] r.shape = "error" -> Fall
      [] r.shape = "nocontent" -> Raise("KeyError")
      [] r.shape = "ok" -> Live(PyStr(r.text))

Decode(o, r) == IF CallsStart(o) THEN DecodeParsed(r) ELSE DecodeRaw(r)

(* `except Exception as e: logger.error(...)`, then the fallback return *)
Catch(oc) == IF oc.out = "raise" THEN Fall ELSE oc

----------------------------------------------------------------------------
(* Task records and results *)

(* stopped: a stop() has terminated the child this task wrote its request
   to, while the task stood between the write and the read (not in the
   program) *)
IdleTask == [pc |-> "idle", op |-> "", arg |-> "", phase |-> "",
             wproc |-> None, rproc |-> None, no |-> 0, stopped |-> FALSE]

NoRes == [op |-> "", arg |-> "", src |-> "none", val |-> NoVal,
          line |-> NoLine, wrote |-> None, readfrom |-> None, no |-> 0]

(* The value a capability call hands to its caller: oc is what the try
   block came to, ln the response line it read (NoLine when none).  The
   fallback is called outside the try block (after the handler, or before
   the block), so what it raises reaches the caller. *)
Result(me, oc, ln, rp) ==
    LET c == Catch(oc)
        mock == GetMock(me.op, me.arg)
    IN
    [op |-> me.op, arg |-> me.arg,
     src |-> CASE c.out = "live" -> "live"
               [] c.out = "fall" /\ mock.ty = "dict" -> "fallback"
               [] OTHER -> "raised",
     val |-> CASE c.out = "live" -> c.val
               [] c.out = "fall" /\ mock.ty = "dict" -> mock
               [] OTHER -> NoVal,
     line |-> ln, wrote |-> me.wproc, readfrom |-> rp, no |-> me.no]

(* start() and stop() return nothing *)
Plain(me, how) ==
    [op |-> me.op, arg |-> me.arg, src |-> how, val |-> NoVal,
     line |-> NoLine, wrote |-> me.wproc, readfrom |-> None, no |-> me.no]

Return(t, r) ==
    /\ task' = [task EXCEPT ![t] = IdleTask]
    /\ returned' = r

(* A step in which no call returns *)
Suspend(t, me) ==
    /\ task' = [task EXCEPT ![t] = me]
    /\ returned' = NoRes

----------------------------------------------------------------------------
Init ==
    /\ process = None
    /\ initialized = FALSE
    /\ nspawned = 0
    /\ alive = [ch \in Children |-> FALSE]
    /\ inbox = [ch \in Children |-> <<>>]
    /\ outbox = [ch \in Children |-> <<>>]
    /\ waiter = [ch \in Children |-> NoTask]
    /\ task = [t \in Tasks |-> IdleTask]
    /\ returned = NoRes
    /\ nops = 0
    /\ shaken = {}
    /\ maxid = [ch \in Children |-> 0]

----------------------------------------------------------------------------
(* Pieces of a coroutine that several steps share *)

(* A client that writes its request twice *)
SendCallTwice(t, me) ==
    IF process = None
    THEN /\ Return(t, Result(me, Raise("RuntimeError"), NoLine, None))
         /\ UNCHANGED <<inbox, maxid>>
    ELSE /\ inbox' = IF alive[process]
                     THEN [inbox EXCEPT ![process] =
                              @ \o <<Request(me.op, me.arg, me.no),
                                     Request(me.op, me.arg, me.no)>>]
                     ELSE inbox
         /\ maxid' = IF alive[process]
                     THEN [maxid EXCEPT ![process] =
                              Max(@, RequestId(me.op))]
                     ELSE maxid
         /\ Suspend(t, [me EXCEPT !.pc = "drain", !.phase = "call",
                                  !.wproc = process, !.rproc = None])

(* _send_request(request) of a tools/call, then up to the drain: with no
   process it raises RuntimeError, which the operation's handler turns into
   the fallback; a line written to a dead child is lost. *)
SendCall(t, me) ==
    IF process = None
    THEN /\ Return(t, Result(me, Raise("RuntimeError"), NoLine, None))
         /\ UNCHANGED <<inbox, maxid>>
    ELSE /\ inbox' = IF alive[process]
                     THEN [inbox EXCEPT ![process] =
                              Append(@, Request(me.op, me.arg, me.no))]
                     ELSE inbox
         /\ maxid' = IF alive[process]
                     THEN [maxid EXCEPT ![process] =
                              Max(@, RequestId(me.op))]
                     ELSE maxid
         /\ Suspend(t, [me EXCEPT !.pc = "drain", !.phase = "call",
                                  !.wproc = process, !.rproc = None])

(* What follows the return of start() inside an operation: the second
   `if not self.initialized` and the request.  ready is self.initialized as
   start() left it. *)
AfterStart(t, ready) ==
    LET me == task[t] IN
    IF me.op = "start"
    THEN /\ Return(t, Plain(me, "returned"))
         /\ UNCHANGED <<inbox, maxid>>
    ELSE IF ~ready
    THEN /\ Return(t, Result(me, Fall, NoLine, None))
         /\ UNCHANGED <<inbox, maxid>>
    ELSE SendCall(t, me)

(* What follows _read_response(): r is the decoded response (NoLine for
   None), ln the line it came from, rp the process read from. *)
AfterRead(t, r, ln, rp) ==
    LET me == task[t] IN
    IF me.phase = "init"
    THEN LET acc == StartAccepts(r)
             ready == CASE acc = "yes" -> TRUE
                        [] acc = "raise" -> FALSE
                        [] OTHER -> initialized
         IN /\ initialized' = ready
            /\ shaken' = IF acc = "yes" THEN shaken \cup {rp} ELSE shaken
            /\ AfterStart(t, ready)
    ELSE /\ UNCHANGED <<initialized, shaken>>
         /\ Return(t, Result(me, Decode(me.op, r), ln, rp))
         /\ UNCHANGED <<inbox, maxid>>

----------------------------------------------------------------------------
(* The steps *)

(* A caller invokes a capability operation: up to the first suspension *)
InvokeCapability(t, o, a) ==
    /\ task[t].pc = "idle"
    /\ nops' = nops + 1
    /\ LET me == [IdleTask EXCEPT !.op = o, !.arg = a, !.no = nops + 1] IN
       IF CallsStart(o) /\ ~initialized
       THEN /\ Suspend(t, [me EXCEPT !.pc = "spawning", !.phase = "init"])
            /\ UNCHANGED <<inbox, maxid>>
       ELSE SendCall(t, me)
    /\ UNCHANGED <<process, initialized, shaken, nspawned, alive, outbox,
                   waiter>>

(* A caller invokes start() itself *)
InvokeStart(t) ==
    /\ task[t].pc = "idle"
    /\ nops' = nops + 1
    /\ Suspend(t, [IdleTask EXCEPT !.pc = "spawning", !.op = "start",
                                   !.phase = "init", !.no = nops + 1])
    /\ UNCHANGED <<process, initialized, shaken, nspawned, alive, inbox,
                   maxid, outbox, waiter>>

(* create_subprocess_exec raises: start()'s handler clears the flag and
   leaves self.process as it was *)
SpawnFails(t) ==
    /\ task[t].pc = "spawning"
    /\ initialized' = FALSE
    /\ AfterStart(t, FALSE)
    /\ UNCHANGED <<process, shaken, nspawned, alive, outbox, waiter, nops>>

(* create_subprocess_exec returns a new child: self.process is assigned and
   the initialize request written *)
SpawnDone(t) ==
    /\ task[t].pc = "spawning"
    /\ nspawned < MaxSpawns
    /\ LET ch == nspawned + 1 IN
       /\ nspawned' = ch
       /\ process' = ch
       /\ alive' = [alive EXCEPT ![ch] = TRUE]
       /\ inbox' = [inbox EXCEPT ![ch] =
                       Append(@, Request("initialize", "", task[t].no))]
       /\ maxid' = [maxid EXCEPT ![ch] = Max(@, RequestId("initialize"))]
       /\ Suspend(t, [task[t] EXCEPT !.pc = "drain", !.wproc = ch])
    /\ UNCHANGED <<initialized, shaken, outbox, waiter, nops>>

(* A handler that takes a write error for the loss of the provider and
   clears the flag *)
DrainFailsClearsReady(t) ==
    /\ task[t].pc = "drain"
    /\ ~alive[task[t].wproc]
    /\ initialized' = FALSE
    /\ IF task[t].phase = "init"
       THEN AfterStart(t, FALSE)
       ELSE /\ Return(t, Result(task[t], Raise("ConnectionResetError"),
                                NoLine, None))
            /\ UNCHANGED <<inbox, maxid>>
    /\ UNCHANGED <<process, shaken, nspawned, alive, outbox, waiter, nops>>

(* stdin.drain() raises (the child written to is gone) *)
DrainFails(t) ==
    /\ task[t].pc = "drain"
    /\ ~alive[task[t].wproc]
    /\ IF task[t].phase = "init"
       THEN /\ initialized' = FALSE
            /\ AfterStart(t, FALSE)
       ELSE /\ initialized' = initialized
            /\ Return(t, Result(task[t], Raise("ConnectionResetError"),
                                NoLine, None))
            /\ UNCHANGED <<inbox, maxid>>
    /\ UNCHANGED <<process, shaken, nspawned, alive, outbox, waiter, nops>>

(* stdin.drain() returns and _read_response() begins on what self.process
   is now: None without a process; a buffered line at once; b"" at end of
   stream; RuntimeError (caught, None) when another coroutine already waits
   on that stream; otherwise the task suspends in readline() *)
DrainDone(t) ==
    /\ task[t].pc = "drain"
    /\ LET p == process IN
       IF p = None
       THEN /\ AfterRead(t, NoLine, NoLine, None)
            /\ UNCHANGED <<outbox, waiter>>
       ELSE IF outbox[p] # <<>>
       THEN /\ outbox' = [outbox EXCEPT ![p] = Tail(@)]
            /\ AfterRead(t, ParseLine(Head(outbox[p])), Head(outbox[p]), p)
            /\ UNCHANGED waiter
       ELSE IF ~alive[p] \/ waiter[p] # NoTask
       THEN /\ AfterRead(t, NoLine, NoLine, p)
            /\ UNCHANGED <<outbox, waiter>>
       ELSE /\ waiter' = [waiter EXCEPT ![p] = t]
            /\ Suspend(t, [task[t] EXCEPT !.pc = "reading", !.rproc = p])
            /\ UNCHANGED <<initialized, shaken, inbox, maxid, outbox>>
    /\ UNCHANGED <<process, nspawned, alive, nops>>

(* readline() resumes with a line, or with b"" at end of stream *)
ReadWake(t) ==
    /\ task[t].pc = "reading"
    /\ LET p == task[t].rproc IN
       /\ outbox[p] # <<>> \/ ~alive[p]
       /\ waiter' = [waiter EXCEPT ![p] = IF @ = t THEN NoTask ELSE @]
       /\ IF outbox[p] # <<>>
          THEN /\ outbox' = [outbox EXCEPT ![p] = Tail(@)]
               /\ AfterRead(t, ParseLine(Head(outbox[p])), Head(outbox[p]), p)
          ELSE /\ outbox' = outbox
               /\ AfterRead(t, NoLine, NoLine, p)
    /\ UNCHANGED <<process, nspawned, alive, nops>>

(* Task t has written a request to child ch and not yet read a response *)
InFlight(t, ch) ==
    /\ task[t].pc \in {"drain", "reading"}
    /\ task[t].wproc = ch

(* stop(), up to `await self.process.wait()`: nothing without a process;
   terminate() raises ProcessLookupError on a child that has already
   exited and been reaped *)
InvokeStop(t) ==
    /\ task[t].pc = "idle"
    /\ nops' = nops + 1
    /\ LET me == [IdleTask EXCEPT !.op = "stop", !.no = nops + 1] IN
       IF process = None
       THEN /\ Return(t, Plain(me, "returned"))
            /\ UNCHANGED <<alive, inbox, maxid>>
       ELSE \/ /\ alive' = [alive EXCEPT ![process] = FALSE]
               /\ inbox' = [inbox EXCEPT ![process] = <<>>]
               /\ maxid' = maxid
               /\ task' = [u \in Tasks |->
                             IF u = t
                             THEN [me EXCEPT !.pc = "stopwait",
                                             !.wproc = process]
                             ELSE IF task[u].phase = "call"
                                     /\ InFlight(u, process)
                             THEN [task[u] EXCEPT !.stopped = TRUE]
                             ELSE task[u]]
               /\ returned' = NoRes
            \/ /\ ~alive[process]
               /\ Return(t, Plain(me, "raised"))
               /\ UNCHANGED <<alive, inbox, maxid>>
    /\ UNCHANGED <<process, initialized, shaken, nspawned, outbox, waiter>>

(* stop(), after the wait: the handle and the flag are cleared *)
StopDone(t) ==
    /\ task[t].pc = "stopwait"
    /\ process' = None
    /\ initialized' = FALSE
    /\ shaken' = shaken
    /\ Return(t, Plain(task[t], "returned"))
    /\ UNCHANGED <<nspawned, alive, inbox, maxid, outbox, waiter, nops>>

(* The provider answers the oldest request it has not answered *)
ChildRespond(ch, strict) ==
    /\ alive[ch]
    /\ inbox[ch] # <<>>
    /\ \E ln \in Answers(Head(inbox[ch]), strict) :
          outbox' = [outbox EXCEPT ![ch] = Append(@, ln)]
    /\ inbox' = [inbox EXCEPT ![ch] = Tail(@)]
    /\ returned' = NoRes
    /\ UNCHANGED <<process, initialized, shaken, nspawned, alive, waiter,
                   task, nops, maxid>>

(* The provider exits on its own *)
ChildExit(ch) ==
    /\ alive[ch]
    /\ alive' = [alive EXCEPT ![ch] = FALSE]
    /\ inbox' = [inbox EXCEPT ![ch] = <<>>]
    /\ returned' = NoRes
    /\ UNCHANGED <<process, initialized, shaken, nspawned, outbox, waiter,
                   task, nops, maxid>>

(* The provider's own steps *)
Provider(strict) ==
    \/ \E ch \in Children : ChildRespond(ch, strict)
    \/ \E ch \in Children : ChildExit(ch)

(* The steps of task t once its operation is under way *)
Resume(t) ==
    \/ SpawnFails(t)
    \/ SpawnDone(t)
    \/ DrainFails(t)
    \/ DrainDone(t)
    \/ ReadWake(t)
    \/ StopDone(t)

(* One caller, which issues its operations one after another *)
Next ==
    \/ /\ nops < MaxOps
       /\ \E o \in Capabilities, a \in Args : InvokeCapability(Caller, o, a)
    \/ /\ nops < MaxOps
       /\ InvokeStart(Caller)
    \/ /\ nops < MaxOps
       /\ InvokeStop(Caller)
    \/ Resume(Caller)
    \/ Provider(FALSE)

Spec == Init /\ [][Next]_vars

(* Two tasks that call the shared client concurrently, each with its own
   argument, one operation of each kind of the facade *)
ConcOps == {"search_papers", "generate_ieee_citations"}

ConcArg(t) == IF t = "t1" THEN "q1" ELSE "q2"

ConcNext ==
    \/ /\ nops < MaxConcOps
       /\ \E t \in Tasks, o \in ConcOps : InvokeCapability(t, o, ConcArg(t))
    \/ /\ nops < MaxConcOps
       /\ \E t \in Tasks : InvokeStart(t)
    \/ /\ nops < MaxConcOps
       /\ \E t \in Tasks : InvokeStop(t)
    \/ \E t \in Tasks : Resume(t)
    \/ Provider(TRUE)

ConcSpec == Init /\ [][ConcNext]_vars

(* One caller, and a provider that stays up and answers every request with
   one line, in order (any line: a result, an error, or garbage) *)
OrderlyNext ==
    \/ /\ nops < MaxOps
       /\ \E o \in Capabilities, a \in Args : InvokeCapability(Caller, o, a)
    \/ /\ nops < MaxOps
       /\ InvokeStart(Caller)
    \/ /\ nops < MaxOps
       /\ InvokeStop(Caller)
    \/ SpawnFails(Caller)
    \/ SpawnDone(Caller)
    \/ DrainDone(Caller)
    \/ ReadWake(Caller)
    \/ StopDone(Caller)
    \/ \E ch \in Children : ChildRespond(ch, FALSE)

OrderlySpec == Init /\ [][OrderlyNext]_vars

----------------------------------------------------------------------------
(* The fallbacks as functions of their arguments *)

(* The characters of a query: a lower-case letter, an upper-case letter,
   a blank *)
Chars == {"a", "B", " "}

Queries == UNION {[1..n -> Chars] : n \in 0..MaxQueryLen}

IsLetter(c) == c # " "

LowerChar(c) == CASE c = "A" -> "a" [] c = "B" -> "b" [] OTHER -> c

UpperChar(c) == CASE c = "a" -> "A" [] c = "b" -> "B" [] OTHER -> c

(* str.lower() *)
StrLower(q) == [i \in 1..Len(q) |-> LowerChar(q[i])]

(* str.title(): a letter that follows no letter is put in upper case, every
   other letter in lower case *)
StrTitle(q) ==
    [i \in 1..Len(q) |->
        IF i = 1 \/ ~IsLetter(q[i - 1]) THEN UpperChar(q[i])
        ELSE LowerChar(q[i])]

(* A fallback that puts the query among the keywords as it came *)
GetMockPapersRawKeyword(query) ==
    [papers |->
        <<[id |-> 1,
           title |-> <<"Advanced Research in ">> \o StrTitle(query),
           relevance_score |-> 95,
           keywords |-> <<query, <<"research">>, <<"methodology">>,
                          <<"analysis">>>>]>>,
     total_found |-> 1,
     query |-> query,
     sources_used |-> <<"mock">>]

(* _get_mock_papers(query); the text of an f-string is one element, the
   characters of the query follow it *)
GetMockPapers(query) ==
    [papers |->
        <<[id |-> 1,
           title |-> <<"Advanced Research in ">> \o StrTitle(query),
           relevance_score |-> 95,
           keywords |-> <<StrLower(query), <<"research">>, <<"methodology">>,
                          <<"analysis">>>>]>>,
     total_found |-> 1,
     query |-> query,
     sources_used |-> <<"mock">>]

(* The words of a prompt: words that occur in the canned papers, a word of
   three letters, and a word that occurs nowhere *)
Vocabulary == {"quantum", "computing", "neural", "privacy", "iot", "banana"}

Prompts == UNION {[1..n -> Vocabulary] : n \in 0..MaxWords}

(* len(word) *)
WordLength(w) ==
    CASE w = "quantum" -> 7
      [] w = "computing" -> 9
      [] w = "neural" -> 6
      [] w = "privacy" -> 7
      [] w = "iot" -> 3
      [] w = "banana" -> 6

(* MOCK_RESEARCH_PAPERS: of each paper its score, those of its keywords
   that are made of words of the vocabulary, and the words of the
   vocabulary that occur in its title and in its abstract *)
MockResearchPapers ==
    <<[id |-> 1, relevance_score |-> 95,
       keywords |-> {<<"quantum", "computing">>},
       title |-> {"quantum", "computing", "neural"},
       abstract |-> {"quantum", "computing", "neural"}],
      [id |-> 2, relevance_score |-> 87,
       keywords |-> {},
       title |-> {"computing"},
       abstract |-> {"computing", "neural"}],
      [id |-> 3, relevance_score |-> 92,
       keywords |-> {}, title |-> {}, abstract |-> {}],
      [id |-> 4, relevance_score |-> 78,
       keywords |-> {<<"iot">>}, title |-> {"iot"}, abstract |-> {}],
      [id |-> 5, relevance_score |-> 85,
       keywords |-> {<<"privacy">>},
       title |-> {"privacy"}, abstract |-> {"privacy"}]>>

Min(x, y) == IF x <= y THEN x ELSE y

(* `keyword.lower() in prompt_lower`: the words of the keyword stand in the
   prompt one after another *)
Occurs(k, ws) ==
    \E a \in 0..(Len(ws) - Len(k)) : \A j \in 1..Len(k) : ws[a + j] = k[j]

(* What one word of the prompt adds: 15 in the title, 10 in the abstract,
   for words of more than three letters *)
WordBonus(paper, w) ==
    IF WordLength(w) > 3
    THEN (IF w \in paper.title THEN 15 ELSE 0)
         + (IF w \in paper.abstract THEN 10 ELSE 0)
    ELSE 0

RECURSIVE SumWordBonus(_, _, _)
SumWordBonus(paper, ws, i) ==
    IF i > Len(ws) THEN 0
    ELSE WordBonus(paper, ws[i]) + SumWordBonus(paper, ws, i + 1)

(* The relevance a prompt gives a paper: 20 for each keyword, and the
   bonus of each word of the prompt *)
Relevance(paper, ws) ==
    20 * Cardinality({k \in paper.keywords : Occurs(k, ws)})
    + SumWordBonus(paper, ws, 1)

Scored(paper, score) == [id |-> paper.id, relevance_score |-> score]

(* The papers with relevance > 0, in the order of the list, each copied
   with min(score + relevance, 100) *)
RECURSIVE RelevantPapers(_, _)
RelevantPapers(ps, ws) ==
    IF ps = <<>> THEN <<>>
    ELSE LET paper == Head(ps)
             relevance == Relevance(paper, ws)
         IN (IF relevance > 0
             THEN <<Scored(paper,
                           Min(paper.relevance_score + relevance, 100))>>
             ELSE <<>>)
            \o RelevantPapers(Tail(ps), ws)

(* All papers with max(40, score - 30) *)
LoweredPapers(ps) ==
    [i \in 1..Len(ps) |-> Scored(ps[i], Max(40, ps[i].relevance_score - 30))]

(* A sort that was left out *)
Unsorted(s) == s

RECURSIVE InsertByScore(_, _)
InsertByScore(paper, s) ==
    IF s = <<>> THEN <<paper>>
    ELSE IF Head(s).relevance_score >= paper.relevance_score
    THEN <<Head(s)>> \o InsertByScore(paper, Tail(s))
    ELSE <<paper>> \o s

(* list.sort(key=relevance_score, reverse=True): stable, largest first *)
RECURSIVE SortByRelevance(_)
SortByRelevance(s) ==
    IF s = <<>> THEN <<>>
    ELSE InsertByScore(s[Len(s)], SortByRelevance(SubSeq(s, 1, Len(s) - 1)))

(* research_query_fallback(query, db): the papers it returns for a prompt *)
ResearchQueryFallback(ws) ==
    LET relevant_papers == RelevantPapers(MockResearchPapers, ws) IN
    [papers |-> SortByRelevance(IF relevant_papers = <<>>
                                THEN LoweredPapers(MockResearchPapers)
                                ELSE relevant_papers)]

(* A call of _get_mock_papers *)
CallGetMockPapers(q) ==
    /\ returned' = [NoRes EXCEPT !.op = "_get_mock_papers", !.arg = q,
                                 !.src = "fallback",
                                 !.val = GetMockPapers(q)]
    /\ UNCHANGED <<process, initialized, nspawned, alive, inbox, outbox,
                   waiter, task, nops, shaken, maxid>>

(* A call of research_query_fallback *)
CallResearchQueryFallback(ws) ==
    /\ returned' = [NoRes EXCEPT !.op = "research_query_fallback",
                                 !.arg = ws, !.src = "fallback",
                                 !.val = ResearchQueryFallback(ws)]
    /\ UNCHANGED <<process, initialized, nspawned, alive, inbox, outbox,
                   waiter, task, nops, shaken, maxid>>

FallbackNext ==
    \/ \E q \in Queries : CallGetMockPapers(q)
    \/ \E ws \in Prompts : CallResearchQueryFallback(ws)

FallbackSpec == Init /\ [][FallbackNext]_vars

----------------------------------------------------------------------------
(* Properties *)

(* The call that returned in the last step was a capability call *)
CapabilityReturned == returned.op \in Capabilities

(* C1: every capability call returns normally, with a live result or with
   the fallback result, whatever the provider did (no process, spawn
   failure, failed handshake, write error, end of stream, malformed or
   error response): no exception reaches the caller. *)
C1_NeverRaises ==
    CapabilityReturned =>
        /\ returned.src \in {"live", "fallback"}
        /\ returned.val # NoVal

(* C2: concurrent calls are serialized on the child's input/output pair:
   while one call stands between the write of its request and the read of
   the response, no other call has written to the same child. *)
C2_LockStep ==
    \A t1, t2 \in Tasks, ch \in Children :
        InFlight(t1, ch) /\ InFlight(t2, ch) => t1 = t2

(* C3: at most one spawned child is alive, and it is the one the process
   handle refers to. *)
C3_OneLiveChild ==
    \A ch \in Children : alive[ch] => process = ch

(* C4: a response whose id differs from the id of the awaited request is
   discarded: the call returns the fallback result. *)
C4_MismatchedIdFallsBack ==
    (/\ CapabilityReturned
     /\ returned.line.shape # "none"
     /\ returned.line.id # RequestId(returned.op))
        => returned.src = "fallback"

(* C5: when the provider answers a call's request with a well-formed
   success envelope, the value returned is content[0].text parsed as JSON,
   for every operation of the facade. *)
C5_LiveResultIsParsedText ==
    (/\ CapabilityReturned
     /\ returned.line.shape = "ok"
     /\ returned.line.ans = returned.no
     /\ returned.line.answers = "tools/call"
     /\ returned.line.id = RequestId(returned.op)
     /\ JsonValid(returned.line.text))
        => /\ returned.src = "live"
           /\ returned.val = JsonLoads(returned.line.text)

(* C6: a task that waits for a response line from a running child that
   writes nothing can still go on by itself (the wait expires and the call
   falls back). *)
C6_WaitExpires ==
    \A t \in Tasks :
        (/\ task[t].pc = "reading"
         /\ alive[task[t].rproc]
         /\ outbox[task[t].rproc] = <<>>)
            => ENABLED Resume(t)

(* C7: as long as every spawn attempt has failed, the client is not Ready
   and holds no process handle, and every capability call returned the
   fallback result for its own operation and arguments. *)
C7_NoProviderAlwaysFallback ==
    nspawned = 0 =>
        /\ ~initialized
        /\ process = None
        /\ CapabilityReturned =>
              /\ returned.src = "fallback"
              /\ returned.val =
                    [ty |-> "dict", mock |-> returned.op, of |-> returned.arg]

(* Some capability operation is invoked by the caller in this step *)
CapabilityInvoked ==
    \E o \in Capabilities, a \in Args : InvokeCapability(Caller, o, a)

(* C8: after a start() that failed, the next capability call makes a fresh
   spawn attempt. *)
C8_RetryAfterFailedStart ==
    [][(/\ returned.op = "start"
        /\ returned.src = "returned"
        /\ ~initialized
        /\ CapabilityInvoked)
          => task'[Caller].pc = "spawning"]_vars

(* C9: after stop() has returned, the next capability call, whichever it
   is, spawns a new child. *)
C9_RespawnAfterStop ==
    [][(/\ returned.op = "stop"
        /\ returned.src = "returned"
        /\ CapabilityInvoked)
          => task'[Caller].pc = "spawning"]_vars

(* C10: every capability operation invoked while the client is not Ready
   first tries to bring the provider up. *)
C10_ReadinessFirst ==
    [][\A o \in Capabilities, a \in Args :
          (~initialized /\ InvokeCapability(Caller, o, a))
              => task'[Caller].pc = "spawning"]_vars

(* C11: no tools/call request is written to a child unless the initialize
   handshake with that child has succeeded: every capability request on the
   wire went to a child whose handshake response a start() had accepted. *)
C11_CallOnlyAfterHandshake ==
    \A ch \in Children : \A i \in 1..Len(inbox[ch]) :
        inbox[ch][i].method = "tools/call" => ch \in shaken

(* Task t, inside a capability call, reads in this step a line that is not
   JSON *)
ReadsGarbage(t) ==
    /\ task[t].phase = "call"
    /\ \/ /\ DrainDone(t)
          /\ process # None
          /\ outbox[process] # <<>>
          /\ Head(outbox[process]).shape = "garbage"
       \/ /\ ReadWake(t)
          /\ outbox[task[t].rproc] # <<>>
          /\ Head(outbox[task[t].rproc]).shape = "garbage"

(* C12: when the line read in answer to a capability request is not valid
   JSON, the call returns in that very step, without reading another line,
   and hands back the fallback result for its arguments; it does not
   raise. *)
C12_MalformedLineFallsBack ==
    [][\A t \in Tasks :
          ReadsGarbage(t) =>
              /\ returned'.op = task[t].op
              /\ returned'.src = "fallback"
              /\ returned'.val =
                    [ty |-> "dict", mock |-> task[t].op, of |-> task[t].arg]]_vars

(* C13: when the response read by a capability call carries an error
   payload, the call returns the fallback result for its arguments,
   whichever operation it is. *)
C13_ErrorPayloadFallsBack ==
    (CapabilityReturned /\ returned.line.shape = "error") =>
        /\ returned.src = "fallback"
        /\ returned.val =
              [ty |-> "dict", mock |-> returned.op, of |-> returned.arg]

(* C14: when the text of a success envelope is not JSON (the provider's
   "Error: ..." text of a failed tool), the call does not hand that payload
   to the caller. *)
C14_WrongShapeFallsBack ==
    (/\ CapabilityReturned
     /\ returned.line.shape = "ok"
     /\ ~JsonValid(returned.line.text))
        => returned.src # "live"

(* C15: under concurrent calls, a live result comes from the response the
   provider produced for that call's own request, read from the child the
   request was written to. *)
C15_OwnResponseDecoded ==
    (CapabilityReturned /\ returned.src = "live") =>
        /\ returned.line.ans = returned.no
        /\ returned.line.answers = "tools/call"
        /\ returned.readfrom = returned.wrote

(* C16: every request written to a child carries an id greater than the id
   of every request written to that child before, so that no two unanswered
   requests of a child share an id. *)
C16_IdsIncrease ==
    [][\A ch \in Children :
          Len(inbox'[ch]) > Len(inbox[ch]) =>
              /\ inbox'[ch][Len(inbox'[ch])].id > maxid[ch]
              /\ \A i \in 1..Len(inbox[ch]) :
                    inbox[ch][i].id # inbox'[ch][Len(inbox'[ch])].id]_vars

(* C17: start() invoked on a client that is Ready returns at once: no spawn
   is begun, nothing is written, the handle and the flag stay as they
   were. *)
C17_StartIdempotentWhenReady ==
    [][(initialized /\ InvokeStart(Caller)) =>
          /\ task'[Caller].pc = "idle"
          /\ UNCHANGED <<process, initialized, inbox>>]_vars

(* C18: stop() returns normally and leaves the client without process
   handle and not Ready, whether or not a process existed, so that a second
   stop() changes nothing. *)
C18_StopReleases ==
    returned.op = "stop" =>
        /\ returned.src = "returned"
        /\ process = None
        /\ ~initialized

(* C19: every fallback function returns a result for every input of its
   argument types (paper fields absent or None included): a call that took
   the fallback path hands back a result. *)
C19_FallbackTotal ==
    (CapabilityReturned /\ returned.src # "live") =>
        /\ ~MockRaises(returned.op, returned.arg)
        /\ returned.val.ty = "dict"

(* Task t, inside a capability call, finds in this step that the child it
   wrote its request to has exited without a response *)
FindsChildGone(t) ==
    /\ task[t].phase = "call"
    /\ task[t].wproc = process
    /\ ~alive[process]
    /\ outbox[process] = <<>>
    /\ DrainFails(t) \/ DrainDone(t) \/ ReadWake(t)

(* C20: if the child exits after a capability request was written and
   before a response line arrives, the caller goes on (the write fails or
   the read yields end of stream) and the call returns the fallback result;
   it does not raise. *)
C20_ExitBeforeResponseFallsBack ==
    [][\A t \in Tasks :
          FindsChildGone(t) =>
              /\ returned'.op = task[t].op
              /\ returned'.src = "fallback"]_vars

(* C21: when the child has exited on its own while the client is Ready, the
   next capability call releases the dead handle and spawns a fresh
   child. *)
C21_RecoversFromCrash ==
    [][(/\ initialized
        /\ process # None
        /\ ~alive[process]
        /\ CapabilityInvoked)
          => task'[Caller].pc = "spawning"]_vars

(* C22: each of the eight capability names has an operation of the facade,
   and every request written after the handshake is a tools/call that names
   one of the eight and carries exactly the argument keys of that
   capability. *)
C22_EightCapabilitiesOnWire ==
    /\ ToolNames \subseteq Capabilities
    /\ \A ch \in Children : \A i \in 1..Len(inbox[ch]) :
          LET rq == inbox[ch][i] IN
          (i > 1 \/ rq.method # "initialize") =>
              /\ rq.method = "tools/call"
              /\ rq.name \in ToolNames
              /\ rq.keys = ToolSchemaKeys(rq.name)

(* The response line that is taken off a child's stdout in this step
   (NoLine when none is) *)
ConsumedLine ==
    IF \E ch \in Children :
           outbox[ch] # <<>> /\ outbox'[ch] = Tail(outbox[ch])
    THEN Head(outbox[CHOOSE ch \in Children :
                  outbox[ch] # <<>> /\ outbox'[ch] = Tail(outbox[ch])])
    ELSE NoLine

(* Task t ends the start() it is in, in this step *)
StartEnds(t) ==
    /\ task[t].phase = "init"
    /\ task'[t].phase # "init"

(* C23: a start attempt writes one initialize request as the first line to
   the child it spawned, and ends with the client Ready exactly when the
   one line it read is a success envelope (it carries a result); a spawn
   error, write error, malformed line, error payload or end of stream
   leaves the client not Ready. *)
C23_ReadyIffHandshakeSucceeded ==
    [][/\ \A ch \in Children :
             (alive'[ch] /\ ~alive[ch]) =>
                 /\ Len(inbox'[ch]) = 1
                 /\ inbox'[ch][1].method = "initialize"
       /\ \A t \in Tasks :
             StartEnds(t) =>
                 (initialized' <=> ConsumedLine.shape \in {"ok", "nocontent"})
      ]_vars

(* C26: the initialized flag is True only if the client holds a process
   handle and the handshake succeeded on that very process. *)
C26_ReadyImpliesShakenProcess ==
    initialized => (process # None /\ process \in shaken)

(* Task t takes a step of a capability call past its readiness step *)
CallStep(t) ==
    \/ /\ task[t].phase = "call"
       /\ DrainFails(t) \/ DrainDone(t) \/ ReadWake(t)
    \/ /\ initialized
       /\ \E o \in Capabilities, a \in Args : InvokeCapability(t, o, a)

(* C27: a capability call made on a Ready client never changes the process
   handle or the initialized flag, whether it returns a live result or
   falls back. *)
C27_CallKeepsHandleAndFlag ==
    [][\A t \in Tasks :
          CallStep(t) => UNCHANGED <<process, initialized>>]_vars

(* C27 witness: a call on a Ready client fell back on an error payload and
   the client is still Ready with its process. *)
C27_Witness ==
    /\ CapabilityReturned
    /\ returned.src = "fallback"
    /\ returned.line.shape = "error"
    /\ initialized
    /\ process = returned.wrote
    /\ process # None

(* Task t returns from a capability call whose request it had written *)
CallReturns(t) ==
    /\ task[t].phase = "call"
    /\ task'[t].pc = "idle"

(* C28: with calls issued one after another and a provider that answers
   every request with one line in order, a call that has written its
   request reads one line, and that line is the answer to its own request,
   also after earlier calls fell back. *)
C28_SequentialCallsStayAligned ==
    [][\A t \in Tasks :
          CallReturns(t) =>
              /\ ConsumedLine.ans = task[t].no
              /\ ConsumedLine.answers = "tools/call"
              /\ returned'.line = ConsumedLine]_vars

(* C28 witness: the third or a later operation is a call that read the
   success envelope written for its own request. *)
C28_Witness ==
    /\ CapabilityReturned
    /\ returned.no >= 3
    /\ returned.src = "live"
    /\ returned.line.ans = returned.no
    /\ returned.readfrom = returned.wrote

(* C29: a capability call that stands between the write of its request
   and the read of the response when stop() terminates the child completes
   with the fallback result for its arguments: it does not raise, and it
   returns no live result, from whichever process. *)
C29_StopDuringCallFallsBack ==
    [][\A t \in Tasks :
          (task[t].stopped /\ task'[t].pc = "idle")
              => /\ returned'.op = task[t].op
                 /\ returned'.src = "fallback"]_vars

(* The upper-case and lower-case forms of a letter are the same letter *)
SameLetter(c, d) == LowerChar(c) = LowerChar(d)

(* C24: for every query, the search_papers fallback has sources_used
   ["mock"], the query itself in its query field, total_found equal to the
   number of papers, which is at least one, a first keyword that is the
   query in lower case and a title that ends with the query, letter for
   letter. *)
C24_MockPapersFromQuery ==
    returned.op = "_get_mock_papers" =>
        LET q == returned.arg
            res == returned.val
            paper == res.papers[1]
            kw == paper.keywords[1]
            off == Len(paper.title) - Len(q)
        IN /\ res.sources_used = <<"mock">>
           /\ res.query = q
           /\ Len(res.papers) >= 1
           /\ res.total_found = Len(res.papers)
           /\ Len(kw) = Len(q)
           /\ \A i \in 1..Len(q) :
                 /\ SameLetter(kw[i], q[i])
                 /\ UpperChar(kw[i]) # kw[i] \/ ~IsLetter(kw[i])
           /\ off >= 1
           /\ \A i \in 1..Len(q) : SameLetter(paper.title[off + i], q[i])

(* C24 witness: the fallback was computed for a query of two words with an
   upper-case letter in it. *)
C24_Witness ==
    /\ returned.op = "_get_mock_papers"
    /\ returned.arg = <<"B", " ", "a">>
    /\ returned.val.papers[1].keywords[1] = <<"b", " ", "a">>

(* C25: what a fallback hands back is fixed by the operation and its
   arguments, whatever the handle, the flag and the calls before; and a
   step in which a call only falls back changes nothing of the client. *)
C25_FallbackDependsOnArgumentsOnly ==
    [][\A t \in Tasks :
          (returned'.op \in Capabilities /\ returned'.src # "live") =>
              /\ returned'.val =
                    IF MockRaises(returned'.op, returned'.arg) THEN NoVal
                    ELSE [ty |-> "dict", mock |-> returned'.op,
                          of |-> returned'.arg]
              /\ (task[t].phase = "call" /\ task'[t].pc = "idle") =>
                    UNCHANGED <<process, initialized, nspawned, alive,
                                inbox, shaken>>]_vars

(* C25 witness: a fallback result handed back by a client that is Ready and
   holds a process, after earlier operations. *)
C25_Witness ==
    /\ CapabilityReturned
    /\ returned.src = "fallback"
    /\ returned.no >= 3
    /\ initialized
    /\ process # None

(* C30: for every prompt research_query_fallback returns at least one
   paper, the scores are between 40 and 100 and never go up along the list;
   when some paper matches, the matching papers are returned with
   min(score + bonus, 100), otherwise all five with max(40, score - 30). *)
C30_FallbackPapersRanked ==
    returned.op = "research_query_fallback" =>
        LET ws == returned.arg
            ps == returned.val.papers
            All == {MockResearchPapers[i] : i \in 1..Len(MockResearchPapers)}
            Hits == {m \in All : Relevance(m, ws) > 0}
            Got == {ps[i] : i \in 1..Len(ps)}
        IN /\ Len(ps) >= 1
           /\ \A i \in 1..Len(ps) :
                 ps[i].relevance_score >= 40 /\ ps[i].relevance_score <= 100
           /\ \A i \in 1..(Len(ps) - 1) :
                 ps[i].relevance_score >= ps[i + 1].relevance_score
           /\ Hits # {} =>
                 /\ Len(ps) = Cardinality(Hits)
                 /\ Got = {Scored(m, Min(m.relevance_score
                                          + Relevance(m, ws), 100)) :
                              m \in Hits}
           /\ Hits = {} =>
                 /\ Len(ps) = Len(MockResearchPapers)
                 /\ Got = {Scored(m, Max(40, m.relevance_score - 30)) :
                              m \in All}

(* C30 witness: a prompt that matches three papers, two of them capped at
   100 and one below. *)
C30_Witness ==
    /\ returned.op = "research_query_fallback"
    /\ returned.arg = <<"neural", "privacy">>
    /\ Len(returned.val.papers) = 3
    /\ returned.val.papers[1].relevance_score = 100
    /\ returned.val.papers[3].relevance_score < 100

====
